---- MODULE Spec2Model ----
(***************************************************************************)
(* Model of the filename parsing engine of PyVideoScraper                  *)
(* (src/core/parser.py, AnimeParser).                                       *)
(*                                                                         *)
(* A string is a sequence of characters; a character is a one-letter        *)
(* string, except for the code points outside ASCII, which are written     *)
(* "FWL" (U+3010), "FWR" (U+3011), "CJK" (any ideograph), "EN" (U+2013)    *)
(* and "IDSP" (U+3000, the ideographic space).                             *)
(***************************************************************************)
EXTENDS Integers, Sequences, FiniteSets

\* ------------------------------------------------------------------------
\* Characters
\* ------------------------------------------------------------------------

Lower == <<"a","b","c","d","e","f","g","h","i","j","k","l","m",
           "n","o","p","q","r","s","t","u","v","w","x","y","z">>
Upper == <<"A","B","C","D","E","F","G","H","I","J","K","L","M",
           "N","O","P","Q","R","S","T","U","V","W","X","Y","Z">>

Letters == {Lower[i] : i \in DOMAIN Lower} \cup {Upper[i] : i \in DOMAIN Upper}

\* \d
Digit == {"0","1","2","3","4","5","6","7","8","9"}

\* \s
White == {" ", "IDSP"}

\* the characters outside ASCII (ord(c) >= 128)
NonAscii == {"FWL", "FWR", "CJK", "EN", "IDSP"}

\* \w of a str pattern: letters, digits, underscore, ideographs
WordChar == Letters \cup Digit \cup {"_", "CJK"}

\* the characters that match a letter under re.IGNORECASE
CI(c) ==
  IF \E i \in DOMAIN Lower : Lower[i] = c \/ Upper[i] = c
  THEN LET i == CHOOSE j \in DOMAIN Lower : Lower[j] = c \/ Upper[j] = c
       IN {Lower[i], Upper[i]}
  ELSE {c}

\* value of a decimal digit
DigitVal(c) ==
  CASE c = "0" -> 0 [] c = "1" -> 1 [] c = "2" -> 2 [] c = "3" -> 3
    [] c = "4" -> 4 [] c = "5" -> 5 [] c = "6" -> 6 [] c = "7" -> 7
    [] c = "8" -> 8 [] c = "9" -> 9

\* ------------------------------------------------------------------------
\* Regular expressions: syntax trees, and the backtracking matcher of re
\* ------------------------------------------------------------------------

\* no upper limit of a repetition
Inf == 0 - 1

Set(S)    == [t |-> "set", cs |-> S]
NotSet(S) == [t |-> "nset", cs |-> S]
Dot       == [t |-> "any"]
Bol       == [t |-> "bol"]
Eol       == [t |-> "eol"]
Wb        == [t |-> "wb"]
Cat(rs)   == [t |-> "cat", rs |-> rs]
Alt(rs)   == [t |-> "alt", rs |-> rs]
Rep(r, lo, hi, greedy) == [t |-> "rep", r |-> r, lo |-> lo, hi |-> hi, greedy |-> greedy]
Grp(name, r) == [t |-> "grp", name |-> name, r |-> r]

Star(r)     == Rep(r, 0, Inf, TRUE)
Plus(r)     == Rep(r, 1, Inf, TRUE)
Opt(r)      == Rep(r, 0, 1, TRUE)
LazyStar(r) == Rep(r, 0, Inf, FALSE)
LazyPlus(r) == Rep(r, 1, Inf, FALSE)

\* a literal word, case-insensitively
Word(w) == Cat([i \in DOMAIN w |-> Set(CI(w[i]))])
\* a literal word, case-sensitively
Lit(w) == Cat([i \in DOMAIN w |-> Set({w[i]})])

GroupNames == {"title", "season", "episode", "season_raw", "group", "g1", "g2", "g3"}

\* the value of a group that did not take part in the match
None == <<"None">>

NoCaps == [n \in GroupNames |-> None]

NoMatch == [ok |-> FALSE, start |-> 0, end |-> 0, caps |-> NoCaps]

Dec(n) == IF n = Inf THEN Inf ELSE IF n > 0 THEN n - 1 ELSE 0

IsWordAt(s, i) == i >= 1 /\ i <= Len(s) /\ s[i] \in WordChar

\* whether character c matches the one-character item r
Accepts(r, c) ==
  CASE r.t = "set"  -> c \in r.cs
    [] r.t = "nset" -> c \notin r.cs
    [] r.t = "any"  -> TRUE

OneChar(r) == r.t \in {"set", "nset", "any"}

\* the length of the longest run of at most hi characters from pos that all
\* match the one-character item r
Run(s, pos, r, hi) ==
  LET cap == IF hi = Inf \/ hi > Len(s) + 1 - pos THEN Len(s) + 1 - pos ELSE hi
  IN CHOOSE k \in 0..cap :
       /\ k = cap \/ ~Accepts(r, s[pos + k])
       /\ \A i \in 0..(k - 1) : Accepts(r, s[pos + i])

\* Match the items of st, in order, against s from position pos (1-based, the
\* next character to read); the alternatives are tried in the order of re's
\* backtracking matcher and the first success is the result.  Repeat(...) is
\* the repetition of a one-character item: k characters are taken, then the
\* rest is matched; a greedy repetition tries the longest run first and gives
\* characters back one at a time, a lazy one starts from the shortest.
RECURSIVE M(_, _, _, _), Repeat(_, _, _, _, _, _, _)
M(s, st, pos, caps) ==
  IF Len(st) = 0
  THEN [ok |-> TRUE, start |-> 0, end |-> pos, caps |-> caps]
  ELSE
    LET h == Head(st)
        rest == Tail(st)
    IN CASE h.t \in {"set", "nset", "any"} ->
              IF pos <= Len(s) /\ Accepts(h, s[pos])
              THEN M(s, rest, pos + 1, caps) ELSE NoMatch
         [] h.t = "bol" ->
              IF pos = 1 THEN M(s, rest, pos, caps) ELSE NoMatch
         [] h.t = "eol" ->
              IF pos = Len(s) + 1 THEN M(s, rest, pos, caps) ELSE NoMatch
         [] h.t = "wb" ->
              IF IsWordAt(s, pos - 1) # IsWordAt(s, pos)
              THEN M(s, rest, pos, caps) ELSE NoMatch
         [] h.t = "cat" ->
              M(s, h.rs \o rest, pos, caps)
         [] h.t = "alt" ->
              IF Len(h.rs) = 0 THEN NoMatch
              ELSE LET first == M(s, <<Head(h.rs)>> \o rest, pos, caps)
                   IN IF first.ok THEN first
                      ELSE M(s, <<Alt(Tail(h.rs))>> \o rest, pos, caps)
         [] h.t = "rep" /\ OneChar(h.r) ->
              LET longest == Run(s, pos, h.r, h.hi)
              IN Repeat(s, rest, pos, caps, h,
                        IF h.greedy THEN longest ELSE h.lo, longest)
         [] h.t = "rep" /\ ~OneChar(h.r) ->
              LET more == M(s, <<h.r, Rep(h.r, Dec(h.lo), Dec(h.hi), h.greedy)>> \o rest,
                            pos, caps)
                  skip == M(s, rest, pos, caps)
              IN IF h.lo > 0 THEN more
                 ELSE IF h.hi = 0 THEN skip
                 ELSE IF h.greedy
                      THEN (IF more.ok THEN more ELSE skip)
                      ELSE (IF skip.ok THEN skip ELSE more)
         [] h.t = "grp" ->
              M(s, <<h.r, [t |-> "end", name |-> h.name, from |-> pos]>> \o rest, pos, caps)
         [] h.t = "end" ->
              M(s, rest, pos, [caps EXCEPT ![h.name] = SubSeq(s, h.from, pos - 1)])

Repeat(s, rest, pos, caps, h, k, longest) ==
  IF k < h.lo \/ k > longest THEN NoMatch
  ELSE LET r == M(s, rest, pos + k, caps)
       IN IF r.ok THEN r
          ELSE Repeat(s, rest, pos, caps, h, IF h.greedy THEN k - 1 ELSE k + 1, longest)

\* pattern.match at position pos
MatchAt(re, s, pos) == [M(s, <<re>>, pos, NoCaps) EXCEPT !.start = pos]

\* pattern.search(s): the match at the leftmost position that has one
RECURSIVE SearchFrom(_, _, _)
SearchFrom(re, s, pos) ==
  IF pos > Len(s) + 1 THEN NoMatch
  ELSE LET m == MatchAt(re, s, pos)
       IN IF m.ok THEN m ELSE SearchFrom(re, s, pos + 1)

Search(re, s) == SearchFrom(re, s, 1)

\* pattern.sub(repl, s) for a pattern that matches no empty string: every
\* non-overlapping match, leftmost first, is replaced by repl[matched text];
\* the text between the matches is kept.
RECURSIVE SubFrom(_, _, _, _)
SubFrom(re, s, pos, repl) ==
  IF pos > Len(s) THEN <<>>
  ELSE LET m == MatchAt(re, s, pos)
       IN IF m.ok /\ m.end > pos
          THEN repl[SubSeq(s, pos, m.end - 1)] \o SubFrom(re, s, m.end, repl)
          ELSE <<s[pos]>> \o SubFrom(re, s, pos + 1, repl)

Sub(re, s, repl) == SubFrom(re, s, 1, repl)

\* re.sub(pattern, '', s)
RECURSIVE DelFrom(_, _, _)
DelFrom(re, s, pos) ==
  IF pos > Len(s) THEN <<>>
  ELSE LET m == MatchAt(re, s, pos)
       IN IF m.ok /\ m.end > pos
          THEN DelFrom(re, s, m.end)
          ELSE <<s[pos]>> \o DelFrom(re, s, pos + 1)

Del(re, s) == DelFrom(re, s, 1)

\* ------------------------------------------------------------------------
\* str and int operations
\* ------------------------------------------------------------------------

\* str.strip()
RECURSIVE LStrip(_)
LStrip(s) == IF Len(s) > 0 /\ Head(s) \in White THEN LStrip(Tail(s)) ELSE s

RECURSIVE RStrip(_)
RStrip(s) ==
  IF Len(s) > 0 /\ s[Len(s)] \in White THEN RStrip(SubSeq(s, 1, Len(s) - 1)) ELSE s

Strip(s) == RStrip(LStrip(s))

\* s.replace(' ', '')
RECURSIVE NoBlanks(_)
NoBlanks(s) ==
  IF Len(s) = 0 THEN <<>>
  ELSE (IF Head(s) = " " THEN <<>> ELSE <<Head(s)>>) \o NoBlanks(Tail(s))

\* '_' in s
HasUnderscore(s) == \E i \in DOMAIN s : s[i] = "_"

\* s.split('_')[0]
FirstPart(s) ==
  LET i == CHOOSE j \in DOMAIN s : s[j] = "_" /\ \A k \in 1..(j - 1) : s[k] # "_"
  IN SubSeq(s, 1, i - 1)

\* s.split('_')[-1]
LastPart(s) ==
  LET i == CHOOSE j \in DOMAIN s : s[j] = "_" /\ \A k \in (j + 1)..Len(s) : s[k] # "_"
  IN SubSeq(s, i + 1, Len(s))

\* len(s.split('_'))
NumParts(s) == Cardinality({i \in DOMAIN s : s[i] = "_"}) + 1

\* int(s) of a string of decimal digits
RECURSIVE IntOf(_)
IntOf(ds) ==
  IF Len(ds) = 0 THEN 0
  ELSE 10 * IntOf(SubSeq(ds, 1, Len(ds) - 1)) + DigitVal(ds[Len(ds)])

\* float(s) of digits with an optional '.d', as a number of tenths
FloatTenths(s) ==
  IF Len(s) >= 2 /\ s[Len(s) - 1] = "."
  THEN 10 * IntOf(SubSeq(s, 1, Len(s) - 2)) + DigitVal(s[Len(s)])
  ELSE 10 * IntOf(s)

\* int(x) of a non-negative float given in tenths: truncation
IntOfTenths(x) == x \div 10

\* the truth value of a captured group: None and '' are false
Truthy(v) == v # None /\ Len(v) > 0

\* ------------------------------------------------------------------------
\* AnimeParser.__init__: the compiled patterns
\* ------------------------------------------------------------------------

Ws     == Star(Set(White))
Dash   == Set({"-", "EN"})
Digits(lo, hi) == Rep(Set(Digit), lo, hi, TRUE)

re_replace_brackets == Alt(<<Set({"FWL"}), Set({"FWR"})>>)

re_strategy_dash ==
  Cat(<<Bol, LazyStar(Dot), Set({"]"}), Ws,
        Grp("title", LazyPlus(Dot)),
        Ws, Dash, Ws,
        Opt(Cat(<<Set(CI("S")), Grp("season", Digits(1, 2)), Ws, Opt(Dash), Ws>>)),
        Grp("episode", Cat(<<Digits(1, 4), Opt(Cat(<<Set({"."}), Set(Digit)>>))>>)),
        Opt(Cat(<<Set(CI("v")), Set(Digit)>>)),
        Alt(<<Set(White), Set({"["}), Set({"("}), Eol>>)>>)

re_strategy_se ==
  Cat(<<Grp("title", LazyStar(Dot)),
        Set(White \cup {"."}),
        Set(CI("S")), Grp("season", Digits(1, 2)),
        Set(CI("E")), Grp("episode", Digits(1, 3))>>)

re_strategy_brackets ==
  Cat(<<Bol, Set({"["}), Grp("group", Plus(NotSet({"]"}))), Set({"]"}),
        Set({"["}), Grp("title", Plus(NotSet({"]"}))), Set({"]"}),
        Opt(Cat(<<Set({"["}),
                  Grp("season_raw",
                      Alt(<<Cat(<<Set(CI("S")), Plus(Set(Digit))>>),
                            Cat(<<Word(<<"S","e","a","s","o","n">>), Ws, Plus(Set(Digit))>>),
                            Cat(<<Word(<<"p","a","r","t">>), Ws, Plus(Set(Digit))>>),
                            Cat(<<LazyStar(NotSet({"]"})), Word(<<"S","e","a","s","o","n">>)>>)>>)),
                  Set({"]"})>>)),
        Set({"["}), Grp("episode", Digits(1, 3)), Set({"]"})>>)

re_strategy_simple ==
  Cat(<<Grp("title", LazyPlus(Dot)),
        Plus(Set(White)),
        Grp("episode", Digits(1, 3)),
        Opt(Cat(<<Set(CI("v")), Set(Digit)>>)),
        Alt(<<Cat(<<Set({"."}), Word(<<"m","p">>), Set({"4"})>>),
              Cat(<<Set({"."}), Word(<<"m","k","v">>)>>)>>),
        Eol>>)

re_season_text ==
  Alt(<<Cat(<<Alt(<<Word(<<"s","e","a","s","o","n">>), Word(<<"p","a","r","t">>)>>),
              Ws, Grp("g1", Digits(1, 2))>>),
        Cat(<<Set(CI("S")), Grp("g2", Digits(1, 2)), Wb>>),
        Cat(<<Grp("g3", Digits(1, 2)),
              Alt(<<Word(<<"n","d">>), Word(<<"r","d">>), Word(<<"t","h">>)>>),
              Plus(Set(White)), Word(<<"s","e","a","s","o","n">>)>>)>>)

re_clean_season ==
  Alt(<<Cat(<<Plus(Set(White)),
              Opt(Alt(<<Cat(<<Set({"2"}), Word(<<"n","d">>)>>),
                        Cat(<<Set({"3"}), Word(<<"r","d">>)>>),
                        Cat(<<Set({"4"}), Word(<<"t","h">>)>>),
                        Word(<<"f","i","n","a","l">>),
                        Word(<<"f","i","r","s","t">>)>>)),
              Ws,
              Alt(<<Word(<<"s","e","a","s","o","n">>), Word(<<"p","a","r","t">>)>>),
              Ws, Star(Set(Digit))>>),
        Cat(<<Plus(Set(White)), Set(CI("S")), Plus(Set(Digit)), Wb>>)>>)

\* the patterns written inline in parse and _clean_title
re_digits      == Plus(Set(Digit))
re_lead_group  == Cat(<<Bol, Set({"["}), LazyStar(Dot), Set({"]"}), Ws>>)
re_year        == Cat(<<Set(White), Set({"("}), Rep(Set(Digit), 4, 4, TRUE), Set({")"})>>)

\* str.lower()
ToLower(s) ==
  [i \in DOMAIN s |->
     IF \E j \in DOMAIN Upper : Upper[j] = s[i]
     THEN Lower[CHOOSE j \in DOMAIN Upper : Upper[j] = s[i]]
     ELSE s[i]]

\* the strings int() accepts here: one or more decimal digits
IsDecimal(s) == s # None /\ Len(s) > 0 /\ \A i \in DOMAIN s : s[i] \in Digit

\* the strings float() accepts here: digits, with an optional fraction
IsFloatLit(s) ==
  \/ IsDecimal(s)
  \/ /\ s # None /\ Len(s) >= 3 /\ s[Len(s) - 1] = "."
     /\ IsDecimal(SubSeq(s, 1, Len(s) - 2)) /\ s[Len(s)] \in Digit

\* ------------------------------------------------------------------------
\* AnimeParser.parse and its helpers, as functions
\* ------------------------------------------------------------------------

\* the replacement function of line 60
BracketRepl == [x \in {<<"FWL">>, <<"FWR">>} |-> IF x = <<"FWL">> THEN <<"[">> ELSE <<"]">>]

\* line 60
Preprocess(f) == Sub(re_replace_brackets, f, BracketRepl)

\* a local `match`: None, or the match object with the strategy that made it
NoStrategy == [ok |-> FALSE, by |-> "none", caps |-> NoCaps]

Attempt(re, name, s) ==
  LET m == Search(re, s)
  IN IF m.ok THEN [ok |-> TRUE, by |-> name, caps |-> m.caps] ELSE NoStrategy

\* lines 64-67 without their guards `if not match`
TryStrategyUnguarded(match, re, name, s) == Attempt(re, name, s)

\* lines 64-67, one line each
TryStrategy(match, re, name, s) == IF ~match.ok THEN Attempt(re, name, s) ELSE match

\* an Optional[int] that is None
NoInt == 0 - 1

\* _extract_season_from_text, lines 113-125
ExtractSeasonFromText(text) ==
  LET m == Search(re_season_text, text)
  IN IF ~m.ok THEN NoInt
     ELSE IF Truthy(m.caps["g1"]) THEN IntOf(m.caps["g1"])
     ELSE IF Truthy(m.caps["g2"]) THEN IntOf(m.caps["g2"])
     ELSE IF Truthy(m.caps["g3"]) THEN IntOf(m.caps["g3"])
     ELSE NoInt

\* lines 77-89 with the default of line 77 set to 0
SeasonFromCapturesNoDefault(data) ==
  IF Truthy(data["season"]) THEN IntOf(data["season"])
  ELSE IF Truthy(data["season_raw"])
       THEN LET nums == Search(re_digits, ToLower(data["season_raw"]))
            IN IF nums.ok
               THEN IntOf(SubSeq(ToLower(data["season_raw"]), nums.start, nums.end - 1))
               ELSE 0
       ELSE 0

\* lines 77-89: the season from the captures of the winning strategy
SeasonFromCaptures(data) ==
  IF Truthy(data["season"]) THEN IntOf(data["season"])
  ELSE IF Truthy(data["season_raw"])
       THEN LET nums == Search(re_digits, ToLower(data["season_raw"]))
            IN IF nums.ok
               THEN IntOf(SubSeq(ToLower(data["season_raw"]), nums.start, nums.end - 1))
               ELSE 1
       ELSE 1

\* lines 93-96 left out: the title text is never mined
SeasonFromTextSkipped(season, raw_title) == season

\* lines 93-96 without the test `season == 1` of line 93
SeasonFromTextAlways(season, raw_title) ==
  LET extracted_season == ExtractSeasonFromText(raw_title)
  IN IF extracted_season # NoInt /\ extracted_season # 0
     THEN extracted_season ELSE season

\* lines 93-96: the season mined from the title text
SeasonFromText(season, raw_title) ==
  IF season = 1
  THEN LET extracted_season == ExtractSeasonFromText(raw_title)
       IN IF extracted_season # NoInt /\ extracted_season # 0
          THEN extracted_season ELSE season
  ELSE season

\* lines 99-100 with round() in the place of int() of line 109
EpisodeOfRounded(data) ==
  IF Truthy(data["episode"]) THEN (FloatTenths(data["episode"]) + 5) \div 10 ELSE 0

\* lines 99-100 and int(episode) of line 109
EpisodeOf(data) ==
  IF Truthy(data["episode"]) THEN IntOfTenths(FloatTenths(data["episode"])) ELSE 0

\* lines 139-144 with the test of line 141 left out: always the last part
PickPartLast(text) == IF HasUnderscore(text) THEN LastPart(text) ELSE text

\* the bilingual rule of _clean_title, lines 139-144
PickPart(text) ==
  IF HasUnderscore(text)
  THEN IF NumParts(text) > 1
          /\ \A i \in DOMAIN NoBlanks(Strip(LastPart(text))) :
                NoBlanks(Strip(LastPart(text)))[i] \notin NonAscii
       THEN LastPart(text)
       ELSE FirstPart(text)
  ELSE text

\* the three removals of _clean_title, lines 130, 133, 136
StripGroup(text)  == Del(re_lead_group, text)
StripSeason(text) == Del(re_clean_season, text)
StripYear(text)   == Del(re_year, text)

\* _clean_title, lines 127-146
CleanTitle(text) == Strip(PickPart(StripYear(StripSeason(StripGroup(text)))))

\* the values parse returns
NoneResult == [kind |-> "None"]
Raised     == [kind |-> "Exception"]
AnimeMeta(title, season, episode, raw_filename) ==
  [kind |-> "AnimeMeta", title |-> title, season |-> season,
   episode |-> episode, raw_filename |-> raw_filename]

\* ------------------------------------------------------------------------
\* Inputs
\* ------------------------------------------------------------------------

\* A filename is a prefix (the release group), a title made of at most
\* MaxFragments title fragments, and a suffix (season and episode fields).

\* the number of title fragments of a filename
MaxFragments == 1

\* the number of parse calls in flight on one shared AnimeParser
NumCalls == 2

Prefixes ==
  { <<>>,
    <<"[","g","]">>,
    <<"[","g","]"," ">>,
    <<"FWL","g","FWR"," ">> }

Fragments ==
  { <<"a">>,
    <<"a"," ","S","e","a","s","o","n"," ","3">>,
    <<"S","e","a","s","o","n"," ","3">>,
    <<"a"," ","S","2">>,
    <<"a"," ","(","2","0","2","5",")">>,
    <<"a","(","2","0","2","5",")">>,
    <<"[","b","]">>,
    <<"[","b","]","[","S","3","]"," ","a">>,
    <<"CJK","_","a">>,
    <<"a","_","CJK">> }

Suffixes ==
  { <<" ","-"," ","0","5">>,
    <<" ","-"," ","0","5","v","2">>,
    <<" ","-"," ","S","0"," ","-"," ","1","2",".","5">>,
    <<" ","-"," ","S","1"," ","-"," ","0","5">>,
    <<" ","-"," ","S","2"," ","-"," ","1","2">>,
    <<" ","(","2","0","2","5",")"," ","-"," ","1","0","8","9">>,
    <<".","S","0","1","E","2","8"," ","-"," ","0","5">>,
    <<"[","S","2","]","[","0","5","]">>,
    <<" ","0","7",".","m","k","v">> }

RECURSIVE Flatten(_)
Flatten(ts) == IF Len(ts) = 0 THEN <<>> ELSE Head(ts) \o Flatten(Tail(ts))

Titles == UNION {{Flatten(ts) : ts \in [1..k -> Fragments]} : k \in 0..MaxFragments}

\* filenames of the forms that the fragments above do not compose
ExtraInputs ==
  { <<"[","g","]"," ","CJK","_","IDSP","a"," ","-"," ","0","5">>,
    <<"[","g","]"," ","CJK","_","a","IDSP","a"," ","-"," ","0","5">>,
    <<"[","g","]"," ","b","_","CJK","_","a"," ","-"," ","0","5">>,
    <<"[","g","]"," ","a","_"," ","-"," ","0","5">>,
    <<"[","g","]","[","a"," ","S","e","a","s","o","n"," ","3","]","[","S","2","]","[","0","5","]">>,
    <<"[","g","]","[","b","]","[","S","e","a","s","o","n"," ","2","]","[","0","5","]">>,
    <<"[","g","]","[","b","]","[","p","a","r","t"," ","2","]","[","0","5","]">>,
    <<"[","g","]","[","b","]","[","2","n","d"," ","S","e","a","s","o","n","]","[","0","5","]">>,
    <<"[","g","]","[","b","]","[","F","i","n","a","l"," ","S","e","a","s","o","n","]","[","0","5","]">>,
    <<"[","g","]","[","a"," ","S","e","a","s","o","n"," ","3","]","[","S","1","]","[","0","5","]">>,
    <<"[","g","]","[","b","]","[","0","5","v","2","]">>,
    <<"a"," ","0","7","v","2",".","m","k","v">>,
    <<"[","g","]"," ","a"," ","-"," ","1","2",".","5","v","2">>,
    <<"[","g","]"," ","[","B","S","1","1","]"," ","a"," ","-"," ","0","5">>,
    <<"FWL","g","FWR","FWL","b","FWR","FWL","S","2","FWR","FWL","0","5","FWR">>,
    <<"[","g","FWR"," ","a"," ","EN"," ","0","5">>,
    <<"[","g","]"," ","a","s","2"," ","-"," ","0","5">>,
    <<"[","g","]"," ","a","p","a","r","t"," ","5"," ","-"," ","0","5">>,
    <<"[","g","]"," ","a"," ","1","s","t"," ","S","e","a","s","o","n"," ","-"," ","0","5">> }

Inputs == {p \o b \o s : p \in Prefixes, b \in Titles, s \in Suffixes} \cup ExtraInputs

\* the inputs of the calls that run concurrently
ConcInputs ==
  { <<"FWL","g","FWR"," ","a"," ","-"," ","0","5">>,
    <<"a",".","S","0","1","E","2","8">>,
    <<"a">> }

\* ------------------------------------------------------------------------
\* State: one shared AnimeParser and the parse calls made on it
\* ------------------------------------------------------------------------

VARIABLES
  parser,       \* the attributes of the AnimeParser instance
  pc,           \* per call: the line of parse the call is at
  arg,          \* per call: the string the caller passed
  filename,     \* the locals of parse, per frame
  match,
  raw_title,
  season,
  episode,
  text,         \* the local of _clean_title
  clean_title,
  result        \* per call: the value returned

parserVars == <<parser, pc, arg, filename, match, raw_title, season, episode, text, clean_title, result>>

\* the MediaMonitor that owns the parser, its scanner and its linker
VARIABLES
  files,               \* the files under scan_root, in the order rglob yields them
  linker_enabled,      \* monitor.linker.enabled
  mappings,            \* monitor.mapping_manager.mappings
  scan_i,              \* the position of the generator scanner.scan
  mon_pc,              \* the line run_once is at
  video,               \* the local video of run_once
  processed_shows,     \* monitor.processed_shows
  unidentified_files   \* monitor.unidentified_files

monVars == <<files, linker_enabled, mappings, scan_i, mon_pc, video, processed_shows, unidentified_files>>

\* the background loop of the monitor and the API requests that control it
VARIABLES
  running,             \* monitor._running
  thread,              \* monitor._thread
  loop_pc,             \* per thread made by start_background_loop: its line
  req_pc               \* per API request: the line its handler is at

loopVars == <<running, thread, loop_pc, req_pc>>

\* the calls of manual_identify, and what a scan hands to its collaborators
VARIABLES
  ident,               \* per call of manual_identify: its line and its locals
  calls,               \* the calls the last _process_single_video made
  reported             \* the filenames passed to _add_to_unidentified since line 54

identVars == <<ident, calls, reported>>

vars == <<parserVars, monVars, loopVars, identVars>>

\* AnimeParser.__init__, lines 18-56
NewParser ==
  [re_replace_brackets  |-> re_replace_brackets,
   re_strategy_dash     |-> re_strategy_dash,
   re_strategy_se       |-> re_strategy_se,
   re_strategy_brackets |-> re_strategy_brackets,
   re_strategy_simple   |-> re_strategy_simple,
   re_season_text       |-> re_season_text,
   re_clean_season      |-> re_clean_season]

\* the locals kept on the instance (self.match, self.season, ...) instead
SharedFrame(c) == 1

\* the frame that holds the locals of call c: every call has its own
Frame(c) == c

NotReturned == [kind |-> "running"]

InitCalls(args) ==
  /\ parser = NewParser
  /\ arg = args
  /\ pc = [c \in DOMAIN args |-> "L60"]
  /\ filename = args
  /\ match = [c \in DOMAIN args |-> NoStrategy]
  /\ raw_title = [c \in DOMAIN args |-> <<>>]
  /\ season = [c \in DOMAIN args |-> 1]
  /\ episode = [c \in DOMAIN args |-> 0]
  /\ text = [c \in DOMAIN args |-> <<>>]
  /\ clean_title = [c \in DOMAIN args |-> <<>>]
  /\ result = [c \in DOMAIN args |-> NotReturned]

\* no VideoFile
NoVideo == [path |-> <<>>, filename |-> <<>>, extension |-> <<>>, size_ok |-> FALSE]

\* self._thread = None
NoThread == 0

\* MappingManager.get_data of a filename without mapping, line 37; NoInt
\* stands for a key that is missing
NoData == [id |-> NoInt, season |-> NoInt, episode |-> NoInt]

\* the number of calls of manual_identify
NumIdentify == 1

\* a call of manual_identify that was not made yet
NoIdentify ==
  [pc |-> "idle", filename |-> <<>>, final_id |-> NoInt, season |-> NoInt,
   episode |-> NoInt, list |-> <<>>, ok |-> FALSE]

\* _process_single_video made no call yet; <<>> is a call that was not made
NoCalls ==
  [key |-> <<>>, parsed |-> <<>>, map_data |-> NoData, searched |-> FALSE,
   tv_id |-> NoInt, linker |-> <<>>, lookup |-> <<>>, save |-> <<>>,
   unidentified |-> <<>>, reason |-> ""]

\* MediaMonitor.__init__, lines 18-47, on a scan root that holds the files fs
NewMonitor(fs, enabled) ==
  /\ files = fs
  /\ linker_enabled = enabled
  /\ mappings = [f \in {} |-> {}]
  /\ scan_i = 1
  /\ mon_pc = "idle"
  /\ video = NoVideo
  /\ processed_shows = {}
  /\ unidentified_files = <<>>
  /\ running = FALSE
  /\ thread = NoThread
  /\ ident = [i \in 1..NumIdentify |-> NoIdentify]
  /\ calls = NoCalls
  /\ reported = {}

\* no loop thread was ever made, and the API requests rs are to come
NoLoop(rs) ==
  /\ loop_pc = [r \in rs |-> "unborn"]
  /\ req_pc = [r \in rs |-> "idle"]

\* one call of parse, on any input
Init ==
  /\ \E f \in Inputs : InitCalls([c \in {1} |-> f])
  /\ NewMonitor(<<>>, FALSE)
  /\ NoLoop({})

\* NumCalls calls of parse on the same instance
InitConc ==
  /\ \E args \in [1..NumCalls -> ConcInputs] : InitCalls(args)
  /\ NewMonitor(<<>>, FALSE)
  /\ NoLoop({})

Goto(c, l) ==
  /\ pc' = [pc EXCEPT ![c] = l]
  /\ UNCHANGED <<monVars, loopVars, identVars>>

\* line 60 left out: the strategies see the filename as passed
DoPreprocessSkipped(c) ==
  /\ pc[c] = "L60"
  /\ match' = [match EXCEPT ![Frame(c)] = NoStrategy]
  /\ Goto(c, "L64")
  /\ UNCHANGED <<parser, arg, filename, raw_title, season, episode, text, clean_title, result>>

\* line 60
DoPreprocess(c) ==
  /\ pc[c] = "L60"
  /\ filename' = [filename EXCEPT ![Frame(c)] = Sub(parser.re_replace_brackets, @, BracketRepl)]
  /\ match' = [match EXCEPT ![Frame(c)] = NoStrategy]
  /\ Goto(c, "L64")
  /\ UNCHANGED <<parser, arg, raw_title, season, episode, text, clean_title, result>>

Try(c, at, re, name, next) ==
  /\ pc[c] = at
  /\ match' = [match EXCEPT ![Frame(c)] = TryStrategy(@, re, name, filename[Frame(c)])]
  /\ Goto(c, next)
  /\ UNCHANGED <<parser, arg, filename, raw_title, season, episode, text, clean_title, result>>

\* lines 64-67
TryDash(c)     == Try(c, "L64", parser.re_strategy_dash, "dash", "L65")
TrySE(c)       == Try(c, "L65", parser.re_strategy_se, "se", "L66")
TryBrackets(c) == Try(c, "L66", parser.re_strategy_brackets, "brackets", "L67")
TrySimple(c)   == Try(c, "L67", parser.re_strategy_simple, "simple", "L69")

\* lines 69-70 left out: line 73 calls groupdict() on None
ReturnNoneMissing(c) ==
  /\ pc[c] = "L69"
  /\ ~match[Frame(c)].ok
  /\ result' = [result EXCEPT ![c] = Raised]
  /\ Goto(c, "done")
  /\ UNCHANGED <<parser, arg, filename, match, raw_title, season, episode, text, clean_title>>

\* lines 69-70
ReturnNone(c) ==
  /\ pc[c] = "L69"
  /\ ~match[Frame(c)].ok
  /\ result' = [result EXCEPT ![c] = NoneResult]
  /\ Goto(c, "done")
  /\ UNCHANGED <<parser, arg, filename, match, raw_title, season, episode, text, clean_title>>

\* lines 73-77; None.strip() raises
ExtractData(c) ==
  /\ pc[c] = "L69"
  /\ match[Frame(c)].ok
  /\ IF match[Frame(c)].caps["title"] = None
     THEN /\ result' = [result EXCEPT ![c] = Raised]
          /\ Goto(c, "done")
          /\ UNCHANGED <<raw_title, season>>
     ELSE /\ raw_title' = [raw_title EXCEPT ![Frame(c)] = Strip(match[Frame(c)].caps["title"])]
          /\ season' = [season EXCEPT ![Frame(c)] = 1]
          /\ Goto(c, "L80")
          /\ UNCHANGED result
  /\ UNCHANGED <<parser, arg, filename, match, episode, text, clean_title>>

\* lines 80-89; int() of a string that is no number raises
ResolveSeason(c) ==
  /\ pc[c] = "L80"
  /\ LET data == match[Frame(c)].caps
     IN IF Truthy(data["season"]) /\ ~IsDecimal(data["season"])
        THEN /\ result' = [result EXCEPT ![c] = Raised]
             /\ Goto(c, "done")
             /\ UNCHANGED season
        ELSE /\ season' = [season EXCEPT ![Frame(c)] = SeasonFromCaptures(data)]
             /\ Goto(c, "L93")
             /\ UNCHANGED result
  /\ UNCHANGED <<parser, arg, filename, match, raw_title, episode, text, clean_title>>

\* lines 93-96, run only when the strategy captured no season at all
MineSeasonUncaptured(c) ==
  /\ pc[c] = "L93"
  /\ season' = [season EXCEPT ![Frame(c)] =
                  IF match[Frame(c)].caps["season"] = None /\ match[Frame(c)].caps["season_raw"] = None
                  THEN SeasonFromText(@, raw_title[Frame(c)]) ELSE @]
  /\ Goto(c, "L99")
  /\ UNCHANGED <<parser, arg, filename, match, raw_title, episode, text, clean_title, result>>

\* lines 93-96
MineSeason(c) ==
  /\ pc[c] = "L93"
  /\ season' = [season EXCEPT ![Frame(c)] = SeasonFromText(@, raw_title[Frame(c)])]
  /\ Goto(c, "L99")
  /\ UNCHANGED <<parser, arg, filename, match, raw_title, episode, text, clean_title, result>>

\* lines 99-100; float() of a string that is no number raises
ResolveEpisode(c) ==
  /\ pc[c] = "L99"
  /\ LET data == match[Frame(c)].caps
     IN IF Truthy(data["episode"]) /\ ~IsFloatLit(data["episode"])
        THEN /\ result' = [result EXCEPT ![c] = Raised]
             /\ Goto(c, "done")
             /\ UNCHANGED episode
        ELSE /\ episode' = [episode EXCEPT ![Frame(c)] = EpisodeOf(data)]
             /\ Goto(c, "L104")
             /\ UNCHANGED result
  /\ UNCHANGED <<parser, arg, filename, match, raw_title, season, text, clean_title>>

\* line 104: the call of _clean_title
CallCleanTitle(c) ==
  /\ pc[c] = "L104"
  /\ text' = [text EXCEPT ![Frame(c)] = raw_title[Frame(c)]]
  /\ Goto(c, "L130")
  /\ UNCHANGED <<parser, arg, filename, match, raw_title, season, episode, clean_title, result>>

CleanStep(c, at, new, next) ==
  /\ pc[c] = at
  /\ text' = [text EXCEPT ![Frame(c)] = new]
  /\ Goto(c, next)
  /\ UNCHANGED <<parser, arg, filename, match, raw_title, season, episode, clean_title, result>>

\* lines 130, 133, 136, 139-144
CleanGroup(c)  == CleanStep(c, "L130", StripGroup(text[Frame(c)]), "L133")
CleanSeason(c) == CleanStep(c, "L133", StripSeason(text[Frame(c)]), "L136")
CleanYear(c)   == CleanStep(c, "L136", StripYear(text[Frame(c)]), "L139")
CleanParts(c)  == CleanStep(c, "L139", PickPart(text[Frame(c)]), "L146")

\* line 146, and the assignment of line 104
CleanReturn(c) ==
  /\ pc[c] = "L146"
  /\ clean_title' = [clean_title EXCEPT ![Frame(c)] = Strip(text[Frame(c)])]
  /\ Goto(c, "L106")
  /\ UNCHANGED <<parser, arg, filename, match, raw_title, season, episode, text, result>>

\* lines 106-111
ReturnMeta(c) ==
  /\ pc[c] = "L106"
  /\ result' = [result EXCEPT ![c] =
                  AnimeMeta(clean_title[Frame(c)], season[Frame(c)],
                            episode[Frame(c)], filename[Frame(c)])]
  /\ Goto(c, "done")
  /\ UNCHANGED <<parser, arg, filename, match, raw_title, season, episode, text, clean_title>>

Next ==
  \/ \E c \in DOMAIN pc : DoPreprocess(c)
  \/ \E c \in DOMAIN pc : TryDash(c)
  \/ \E c \in DOMAIN pc : TrySE(c)
  \/ \E c \in DOMAIN pc : TryBrackets(c)
  \/ \E c \in DOMAIN pc : TrySimple(c)
  \/ \E c \in DOMAIN pc : ReturnNone(c)
  \/ \E c \in DOMAIN pc : ExtractData(c)
  \/ \E c \in DOMAIN pc : ResolveSeason(c)
  \/ \E c \in DOMAIN pc : MineSeason(c)
  \/ \E c \in DOMAIN pc : ResolveEpisode(c)
  \/ \E c \in DOMAIN pc : CallCleanTitle(c)
  \/ \E c \in DOMAIN pc : CleanGroup(c)
  \/ \E c \in DOMAIN pc : CleanSeason(c)
  \/ \E c \in DOMAIN pc : CleanYear(c)
  \/ \E c \in DOMAIN pc : CleanParts(c)
  \/ \E c \in DOMAIN pc : CleanReturn(c)
  \/ \E c \in DOMAIN pc : ReturnMeta(c)

Spec == Init /\ [][Next]_vars

SpecConc == InitConc /\ [][Next]_vars

\* parse(f) as one function: the value a call that runs alone returns
Parse(f) ==
  LET fn == Preprocess(f)
      m1 == TryStrategy(NoStrategy, re_strategy_dash, "dash", fn)
      m2 == TryStrategy(m1, re_strategy_se, "se", fn)
      m3 == TryStrategy(m2, re_strategy_brackets, "brackets", fn)
      m4 == TryStrategy(m3, re_strategy_simple, "simple", fn)
      rt == Strip(m4.caps["title"])
  IN IF ~m4.ok THEN NoneResult
     ELSE AnimeMeta(CleanTitle(rt),
                    SeasonFromText(SeasonFromCaptures(m4.caps), rt),
                    EpisodeOf(m4.caps), fn)

\* ------------------------------------------------------------------------
\* VideoScanner (src/core/scanner.py) and FileLinker (src/core/linker.py)
\* ------------------------------------------------------------------------

\* the number of files under the scan root
MaxFiles == 2

\* the index of the last dot of name, 0 when it has none
LastDot(name) ==
  IF \E i \in DOMAIN name : name[i] = "."
  THEN CHOOSE i \in DOMAIN name : name[i] = "." /\ \A j \in (i + 1)..Len(name) : name[j] # "."
  ELSE 0

\* file_path.name in the place of file_path.stem
FullName(name) == name

\* Path.suffix and Path.stem: a leading or a trailing dot starts no suffix
Suffix(name) ==
  LET i == LastDot(name)
  IN IF 1 < i /\ i < Len(name) THEN SubSeq(name, i, Len(name)) ELSE <<>>

Stem(name) ==
  LET i == LastDot(name)
  IN IF 1 < i /\ i < Len(name) THEN SubSeq(name, 1, i - 1) ELSE name

\* scanner.allowed_extensions, from the default of video_extensions
allowed_extensions ==
  { <<".","m","p","4">>, <<".","m","k","v">>, <<".","a","v","i">>, <<".","w","m","v">>, <<".","i","s","o">> }

VideoFile(path, stem, extension) ==
  [path |-> path, filename |-> stem, extension |-> extension, size_ok |-> TRUE]

\* _process_file, lines 45-71: None for a small file and for a locked one
ProcessFile(file_path) ==
  IF ~file_path.big \/ file_path.locked
  THEN NoVideo
  ELSE VideoFile(file_path.name, Stem(file_path.name), ToLower(Suffix(file_path.name)))

\* the files a scan root may hold
ScanFiles ==
  { [name |-> <<"[","g","]"," ","a"," ","-"," ","0","5",".","m","k","v">>, big |-> TRUE, locked |-> FALSE],
    [name |-> <<"a",".","m","k","v">>, big |-> TRUE, locked |-> FALSE],
    [name |-> <<"a"," ","0","7",".","m","k","v",".","m","p","4">>, big |-> TRUE, locked |-> FALSE],
    [name |-> <<"a"," ","0","7",".","m","k","v">>, big |-> TRUE, locked |-> FALSE],
    [name |-> <<"a",".","S","0","1","E","2","8",".","M","K","V">>, big |-> TRUE, locked |-> FALSE],
    [name |-> <<"[","g","]","[","b","]","[","0","5","]",".","t","x","t">>, big |-> TRUE, locked |-> FALSE],
    [name |-> <<"[","g","]"," ","b"," ","-"," ","0","5",".","m","k","v">>, big |-> FALSE, locked |-> FALSE],
    [name |-> <<"b"," ","0","7",".","m","p","4">>, big |-> TRUE, locked |-> TRUE] }

\* the listings of a scan root: at most MaxFiles files, in any order
Directories ==
  { fs \in UNION {[1..k -> ScanFiles] : k \in 0..MaxFiles} :
      \A i, j \in DOMAIN fs : i # j => fs[i].name # fs[j].name }

\* str(n) of a natural number
RECURSIVE Decimal(_)
Decimal(n) ==
  LET d == CHOOSE c \in Digit : DigitVal(c) = n % 10
  IN IF n < 10 THEN <<d>> ELSE Decimal(n \div 10) \o <<d>>

\* format(n, "02d")
Pad2(n) == IF n < 10 THEN <<"0">> \o Decimal(n) ELSE Decimal(n)

\* FileLinker._sanitize, lines 75-76
Sanitize(s) ==
  LET F[i \in 0..Len(s)] ==
        IF i = 0 THEN <<>>
        ELSE IF s[i] \in {":", "/", "\\"} THEN F[i - 1] \o <<" ">>
        ELSE IF s[i] \in {"?", "\"", "*", "<", ">", "|"} THEN F[i - 1]
        ELSE F[i - 1] \o <<s[i]>>
  IN Strip(F[Len(s)])

\* new_filename of FileLinker.run, lines 40-41
LinkName(v, meta) ==
  Sanitize(meta.title \o <<" ","-"," ","S">> \o Pad2(meta.season) \o <<"E">> \o Pad2(meta.episode) \o v.extension)

\* FileLinker.run, lines 18-73; linked: the link exists or could be made
LinkerRun(enabled, v, meta, linked) ==
  IF ~enabled \/ ~linked
  THEN v
  ELSE [v EXCEPT !.path = LinkName(v, meta), !.filename = Stem(LinkName(v, meta))]

\* ------------------------------------------------------------------------
\* MediaMonitor.run_once (src/core/monitor.py)
\* ------------------------------------------------------------------------

\* the ids of the shows TMDB knows
ShowIds == {1}

\* MappingManager.get_data, lines 33-41
GetData(ms, fname) == IF fname \in DOMAIN ms THEN ms[fname] ELSE NoData

\* _add_to_unidentified, lines 140-142: the list holds the filename already
IsUnidentified(list, v) == \E i \in DOMAIN list : list[i].filename = v.filename

\* the entry of lines 144-150
UnidentifiedEntry(v, parsed_title, reason) ==
  [filename |-> v.filename, full_name |-> v.filename \o v.extension,
   path |-> v.path, parsed_title |-> parsed_title, reason |-> reason]

\* no call of parse is in flight
IdleParser ==
  /\ parser = NewParser
  /\ pc = [c \in {1} |-> "idle"]
  /\ arg = [c \in {1} |-> <<>>]
  /\ filename = [c \in {1} |-> <<>>]
  /\ match = [c \in {1} |-> NoStrategy]
  /\ raw_title = [c \in {1} |-> <<>>]
  /\ season = [c \in {1} |-> 1]
  /\ episode = [c \in {1} |-> 0]
  /\ text = [c \in {1} |-> <<>>]
  /\ clean_title = [c \in {1} |-> <<>>]
  /\ result = [c \in {1} |-> NotReturned]

\* a monitor on any scan root, before its first scan
InitScan ==
  /\ IdleParser
  /\ \E fs \in Directories, enabled \in BOOLEAN : NewMonitor(fs, enabled)
  /\ NoLoop({})

\* lines 51-57
RunOnce ==
  /\ mon_pc = "idle"
  /\ unidentified_files' = <<>>
  /\ reported' = {}
  /\ calls' = NoCalls
  /\ scan_i' = 1
  /\ mon_pc' = "L58"
  /\ UNCHANGED <<files, linker_enabled, mappings, video, processed_shows>>
  /\ UNCHANGED <<parserVars, loopVars, ident>>

\* line 58: the generator scanner.scan runs to its next yield, lines 35-43
ScanNext ==
  /\ mon_pc = "L58"
  /\ IF scan_i > Len(files)
     THEN /\ mon_pc' = "L67"
          /\ UNCHANGED <<scan_i, video>>
     ELSE LET file_path == files[scan_i]
          IN /\ scan_i' = scan_i + 1
             /\ IF /\ ToLower(Suffix(file_path.name)) \in allowed_extensions
                   /\ ProcessFile(file_path) # NoVideo
                THEN /\ video' = ProcessFile(file_path)
                     /\ mon_pc' = "L73"
                ELSE UNCHANGED <<video, mon_pc>>
  /\ UNCHANGED <<files, linker_enabled, mappings, processed_shows, unidentified_files>>
  /\ UNCHANGED <<parserVars, loopVars, identVars>>

\* line 73: _process_single_video calls self.parser.parse(video.filename)
CallParse ==
  /\ mon_pc = "L73"
  /\ mon_pc' = "L74"
  /\ pc' = [pc EXCEPT ![1] = "L60"]
  /\ arg' = [arg EXCEPT ![1] = video.filename]
  /\ filename' = [filename EXCEPT ![1] = video.filename]
  /\ match' = [match EXCEPT ![1] = NoStrategy]
  /\ raw_title' = [raw_title EXCEPT ![1] = <<>>]
  /\ season' = [season EXCEPT ![1] = 1]
  /\ episode' = [episode EXCEPT ![1] = 0]
  /\ text' = [text EXCEPT ![1] = <<>>]
  /\ clean_title' = [clean_title EXCEPT ![1] = <<>>]
  /\ result' = [result EXCEPT ![1] = NotReturned]
  /\ UNCHANGED <<parser, files, linker_enabled, mappings, scan_i, video, processed_shows, unidentified_files>>
  /\ UNCHANGED <<loopVars, identVars>>

\* lines 73-75, and lines 62-65 when parse raised
AfterParse ==
  /\ mon_pc = "L74"
  /\ pc[1] = "done"
  /\ pc' = [pc EXCEPT ![1] = "idle"]
  /\ mon_pc' = IF result[1].kind = "AnimeMeta" THEN "L77" ELSE "L58"
  /\ UNCHANGED <<parser, arg, filename, match, raw_title, season, episode, text, clean_title, result>>
  /\ UNCHANGED <<files, linker_enabled, mappings, scan_i, video, processed_shows, unidentified_files>>
  /\ UNCHANGED <<loopVars, identVars>>

\* the call of _add_to_unidentified(v, ...) of lines 109 and 132, up to the
\* test of lines 140-142; c: the calls made before it
ToUnidentified(v, c) ==
  /\ video' = v
  /\ calls' = c
  /\ reported' = reported \cup {v.filename}
  /\ mon_pc' = IF IsUnidentified(unidentified_files, v) THEN "L58" ELSE "L144"

\* lines 77-135; found, show_data, ep_data are the answers of TMDB, raises
\* an exception of a scraper call, caught at line 62
ProcessMeta ==
  /\ mon_pc = "L77"
  /\ \E found \in ShowIds \cup {NoInt}, linked \in BOOLEAN, show_data \in BOOLEAN,
        ep_data \in BOOLEAN, raises \in BOOLEAN :
       LET meta == result[1]
           map_data == GetData(mappings, video.filename)
           manual_id == map_data.id
           manual_season == map_data.season
           manual_episode == map_data.episode
           target_season == IF manual_season # NoInt THEN manual_season ELSE meta.season
           target_episode == IF manual_episode # NoInt THEN manual_episode ELSE meta.episode
           \* line 94, `if manual_id:`, is false for None and for 0
           searched == manual_id \in {NoInt, 0}
           tv_id == IF searched THEN found ELSE manual_id
           moved == LinkerRun(linker_enabled, video,
                              [meta EXCEPT !.season = target_season, !.episode = target_episode],
                              linked)
           looked == [NoCalls EXCEPT !.key = video.filename,
                                     !.parsed = <<meta.season, meta.episode>>,
                                     !.map_data = map_data,
                                     !.searched = searched,
                                     !.tv_id = tv_id]
           linked_up == [looked EXCEPT !.linker = <<target_season, target_episode>>,
                                       !.lookup = <<tv_id, target_season, target_episode>>]
       IN IF raises
          THEN /\ calls' = [NoCalls EXCEPT !.key = video.filename]
               /\ mon_pc' = "L58"
               /\ UNCHANGED <<video, processed_shows, reported>>
          ELSE IF tv_id = NoInt
          THEN /\ ToUnidentified(video, [looked EXCEPT !.unidentified = <<video.filename>>,
                                                       !.reason = "Series Not Found"])
               /\ UNCHANGED processed_shows
          ELSE /\ processed_shows' = IF show_data THEN processed_shows \cup {tv_id} ELSE processed_shows
               /\ IF ep_data
                  THEN /\ video' = moved
                       /\ calls' = [linked_up EXCEPT !.save = <<target_season, target_episode>>]
                       /\ mon_pc' = "L58"
                       /\ UNCHANGED reported
                  ELSE ToUnidentified(moved, [linked_up EXCEPT !.unidentified = <<moved.filename>>,
                                                               !.reason = "Missing"])
  /\ UNCHANGED <<files, linker_enabled, mappings, scan_i, unidentified_files>>
  /\ UNCHANGED <<parserVars, loopVars, ident>>

\* lines 144-150 of _add_to_unidentified
AppendUnidentified ==
  /\ mon_pc = "L144"
  /\ unidentified_files' =
       Append(unidentified_files, UnidentifiedEntry(video, result[1].title, calls.reason))
  /\ mon_pc' = "L58"
  /\ UNCHANGED <<files, linker_enabled, mappings, scan_i, video, processed_shows>>
  /\ UNCHANGED <<parserVars, loopVars, identVars>>

\* lines 66-69: _cleanup_memory, lines 179-186
Cleanup ==
  /\ mon_pc = "L67"
  /\ processed_shows' = {}
  /\ mon_pc' = "done"
  /\ UNCHANGED <<files, linker_enabled, mappings, scan_i, video, unidentified_files>>
  /\ UNCHANGED <<parserVars, loopVars, identVars>>

NextScan ==
  \/ Next
  \/ RunOnce
  \/ ScanNext
  \/ CallParse
  \/ AfterParse
  \/ ProcessMeta
  \/ AppendUnidentified
  \/ Cleanup

SpecScan == InitScan /\ [][NextScan]_vars

\* ------------------------------------------------------------------------
\* MediaMonitor.manual_identify (src/core/monitor.py, lines 152-177) and
\* MappingManager.update (src/core/mapping.py, lines 43-56), called by
\* POST /api/identify on a thread of its own while scans go on
\* ------------------------------------------------------------------------

\* the keywords of a request: none, a TMDB id, a name
Keywords == { <<>>, <<"0">>, <<"1">>, <<"a">> }

\* the seasons and the episodes of a request; NoInt when not given
Seasons == {NoInt, 2}

Episodes == {NoInt, 3}

\* str.isdigit
IsDigits(s) == s # <<>> /\ \A i \in DOMAIN s : s[i] \in Digit

\* the filenames a client sends: those GET /api/unidentified lists, and
\* the names of the files without their extension
IdentifyNames ==
  {unidentified_files[j].filename : j \in DOMAIN unidentified_files}
    \cup {Stem(files[j].name) : j \in DOMAIN files}

\* MappingManager.update, lines 45-54
Update(ms, fname, tmdb_id, s, e) ==
  LET current == GetData(ms, fname)
      data == [id      |-> IF tmdb_id # NoInt THEN tmdb_id ELSE current.id,
               season  |-> IF s # NoInt THEN s ELSE current.season,
               episode |-> IF e # NoInt THEN e ELSE current.episode]
  IN [f \in DOMAIN ms \cup {fname} |-> IF f = fname THEN data ELSE ms[f]]

\* the list comprehension of line 175
Others(list, fname) == SelectSeq(list, LAMBDA f : f.filename # fname)

\* a call of parse reads and writes nothing manual_identify touches: a
\* step of manual_identify that falls inside the call is taken after it
ParseIdle == \A c \in DOMAIN pc : pc[c] \in {"idle", "done"}

IdentGoto(i, l) ==
  /\ ident' = [ident EXCEPT ![i].pc = l]
  /\ UNCHANGED <<parserVars, loopVars, calls, reported>>

\* server.manual_identify, lines 148-154, and manual_identify, lines
\* 158-169; found is the answer of TMDB to the search of line 165
ManualIdentify(i) ==
  /\ ident[i].pc = "idle"
  /\ ParseIdle
  /\ \E fname \in IdentifyNames, keyword \in Keywords, s \in Seasons, e \in Episodes,
        found \in ShowIds \cup {NoInt} :
       /\ ~(keyword = <<>> /\ s = NoInt /\ e = NoInt)
       /\ IsDigits(keyword) \/ keyword = <<>> => found = NoInt
       /\ ident' = [ident EXCEPT ![i] =
            [pc       |-> IF keyword # <<>> /\ ~IsDigits(keyword) /\ found = NoInt
                          THEN "done" ELSE "L172",
             filename |-> fname,
             final_id |-> IF keyword = <<>> THEN NoInt
                          ELSE IF IsDigits(keyword) THEN IntOf(keyword)
                          ELSE found,
             season   |-> s,
             episode  |-> e,
             list     |-> <<>>,
             ok       |-> FALSE]]
  /\ UNCHANGED <<parserVars, monVars, loopVars, calls, reported>>

\* line 172
IdentifyUpdate(i) ==
  /\ ident[i].pc = "L172"
  /\ ParseIdle
  /\ mappings' = Update(mappings, ident[i].filename, ident[i].final_id,
                        ident[i].season, ident[i].episode)
  /\ IdentGoto(i, "L175")
  /\ UNCHANGED <<files, linker_enabled, scan_i, mon_pc, video, processed_shows, unidentified_files>>

\* line 175, its right-hand side: the new list is built from the list the
\* attribute refers to now
IdentifyFilter(i) ==
  /\ ident[i].pc = "L175"
  /\ ParseIdle
  /\ ident' = [ident EXCEPT ![i].pc = "L175=",
                            ![i].list = Others(unidentified_files, ident[i].filename)]
  /\ UNCHANGED <<parserVars, monVars, loopVars, calls, reported>>

\* line 175, the assignment, and line 177
IdentifyStore(i) ==
  /\ ident[i].pc = "L175="
  /\ ParseIdle
  /\ unidentified_files' = ident[i].list
  /\ ident' = [ident EXCEPT ![i].pc = "done", ![i].ok = TRUE]
  /\ UNCHANGED <<files, linker_enabled, mappings, scan_i, mon_pc, video, processed_shows>>
  /\ UNCHANGED <<parserVars, loopVars, calls, reported>>

\* line 69: run_once returns, its local video is gone, and it may be
\* called again
RunOnceReturn ==
  /\ mon_pc = "done"
  /\ mon_pc' = "idle"
  /\ video' = NoVideo
  /\ UNCHANGED <<files, linker_enabled, mappings, scan_i, processed_shows, unidentified_files>>
  /\ UNCHANGED <<parserVars, loopVars, identVars>>

NextIdentify ==
  \/ NextScan
  \/ RunOnceReturn
  \/ \E i \in DOMAIN ident : ManualIdentify(i)
  \/ \E i \in DOMAIN ident : IdentifyUpdate(i)
  \/ \E i \in DOMAIN ident : IdentifyFilter(i)
  \/ \E i \in DOMAIN ident : IdentifyStore(i)

\* a monitor on a scan root of fewer than MaxFiles files, before its first scan
InitIdentify ==
  /\ IdleParser
  /\ \E fs \in Directories, enabled \in BOOLEAN :
       Len(fs) < MaxFiles /\ NewMonitor(fs, enabled)
  /\ NoLoop({})

SpecIdentify == InitIdentify /\ [][NextIdentify]_vars

\* ------------------------------------------------------------------------
\* The background loop (src/core/monitor.py, lines 190-216) and the API
\* handlers that start and stop it (src/server.py, lines 99-112)
\* ------------------------------------------------------------------------

\* the number of API requests; each is served on a thread of its own
NumRequests == 3

\* a monitor with no loop, and the requests that are to come
InitLoop ==
  /\ IdleParser
  /\ NewMonitor(<<>>, FALSE)
  /\ NoLoop(1..NumRequests)

ReqGoto(r, l) ==
  /\ req_pc' = [req_pc EXCEPT ![r] = l]
  /\ UNCHANGED <<parserVars, monVars, identVars>>

\* where the thread that self._thread refers to stands
ThreadState == IF thread = NoThread THEN "none" ELSE loop_pc[thread]

\* server.start_scan, lines 100-105: the test of monitor._running
StartScan(r) ==
  /\ req_pc[r] = "idle"
  /\ ReqGoto(r, IF running THEN "done" ELSE "L192")
  /\ UNCHANGED <<running, thread, loop_pc>>

\* start_background_loop, lines 192-193
StartCheck(r) ==
  /\ req_pc[r] = "L192"
  /\ ReqGoto(r, IF running THEN "done" ELSE "L195")
  /\ UNCHANGED <<running, thread, loop_pc>>

\* line 195
StartSetRunning(r) ==
  /\ req_pc[r] = "L195"
  /\ running' = TRUE
  /\ ReqGoto(r, "L196")
  /\ UNCHANGED <<thread, loop_pc>>

\* line 196: the thread made by request r is thread r
StartCreateThread(r) ==
  /\ req_pc[r] = "L196"
  /\ thread' = r
  /\ loop_pc' = [loop_pc EXCEPT ![r] = "created"]
  /\ ReqGoto(r, "L197")
  /\ UNCHANGED running

\* line 197: self._thread.start() raises when self._thread is None and
\* when that thread was started before
StartThread(r) ==
  /\ req_pc[r] = "L197"
  /\ IF ThreadState = "created"
     THEN /\ loop_pc' = [loop_pc EXCEPT ![thread] = "L210"]
          /\ ReqGoto(r, "done")
     ELSE /\ ReqGoto(r, "raised")
          /\ UNCHANGED loop_pc
  /\ UNCHANGED <<running, thread>>

\* server.stop_scan, lines 109-111, and stop, line 202
StopScan(r) ==
  /\ req_pc[r] = "idle"
  /\ running' = FALSE
  /\ ReqGoto(r, "L203")
  /\ UNCHANGED <<thread, loop_pc>>

\* line 203
StopCheck(r) ==
  /\ req_pc[r] = "L203"
  /\ ReqGoto(r, IF thread # NoThread THEN "L204" ELSE "done")
  /\ UNCHANGED <<running, thread, loop_pc>>

\* line 204: join returns when the thread has ended, and after 2 seconds
\* when it is still inside run_once; it raises when self._thread is None
\* and when that thread was never started
StopJoin(r) ==
  /\ req_pc[r] = "L204"
  /\ ThreadState \in {"none", "created", "dead", "L211"}
  /\ ReqGoto(r, IF ThreadState \in {"none", "created"} THEN "raised" ELSE "L205")
  /\ UNCHANGED <<running, thread, loop_pc>>

\* line 205
StopClear(r) ==
  /\ req_pc[r] = "L205"
  /\ thread' = NoThread
  /\ ReqGoto(r, "done")
  /\ UNCHANGED <<running, loop_pc>>

LoopGoto(t, l) ==
  /\ loop_pc' = [loop_pc EXCEPT ![t] = l]
  /\ UNCHANGED <<parserVars, monVars, identVars, running, thread, req_pc>>

\* _loop_logic, line 210
LoopTest(t) ==
  /\ loop_pc[t] = "L210"
  /\ LoopGoto(t, IF running THEN "L211" ELSE "dead")

\* line 211: run_once returns
LoopRunOnce(t) ==
  /\ loop_pc[t] = "L211"
  /\ LoopGoto(t, "L214")

\* lines 214-216: the sleep ends, or is cut short by line 215
LoopSleep(t) ==
  /\ loop_pc[t] = "L214"
  /\ LoopGoto(t, "L210")

NextLoop ==
  \/ \E r \in DOMAIN req_pc : StartScan(r)
  \/ \E r \in DOMAIN req_pc : StartCheck(r)
  \/ \E r \in DOMAIN req_pc : StartSetRunning(r)
  \/ \E r \in DOMAIN req_pc : StartCreateThread(r)
  \/ \E r \in DOMAIN req_pc : StartThread(r)
  \/ \E r \in DOMAIN req_pc : StopScan(r)
  \/ \E r \in DOMAIN req_pc : StopCheck(r)
  \/ \E r \in DOMAIN req_pc : StopJoin(r)
  \/ \E r \in DOMAIN req_pc : StopClear(r)
  \/ \E t \in DOMAIN loop_pc : LoopTest(t)
  \/ \E t \in DOMAIN loop_pc : LoopRunOnce(t)
  \/ \E t \in DOMAIN loop_pc : LoopSleep(t)

SpecLoop == InitLoop /\ [][NextLoop]_vars

\* ------------------------------------------------------------------------
\* The one-time scan of POST /api/scan/once (src/server.py, lines 114-122)
\* ------------------------------------------------------------------------

\* lines 115-122: the test of monitor._running, then the background task;
\* the task of a request runs monitor.run_once on a thread of the pool
\* after the response was sent
ScanOnce(r) ==
  /\ req_pc[r] = "idle"
  /\ ReqGoto(r, IF running THEN "raised" ELSE "L121")
  /\ UNCHANGED <<running, thread, loop_pc>>

\* the background task enters MediaMonitor.run_once, line 49
TaskRunOnce(r) ==
  /\ req_pc[r] = "L121"
  /\ ReqGoto(r, "run_once")
  /\ UNCHANGED <<running, thread, loop_pc>>

\* run_once returns, line 69
TaskReturn(r) ==
  /\ req_pc[r] = "run_once"
  /\ ReqGoto(r, "returned")
  /\ UNCHANGED <<running, thread, loop_pc>>

NextOnce ==
  \/ NextLoop
  \/ \E r \in DOMAIN req_pc : ScanOnce(r)
  \/ \E r \in DOMAIN req_pc : TaskRunOnce(r)
  \/ \E r \in DOMAIN req_pc : TaskReturn(r)

SpecOnce == InitLoop /\ [][NextOnce]_vars

\* ------------------------------------------------------------------------
\* Properties
\* ------------------------------------------------------------------------

Calls == DOMAIN pc

Returned(c) == pc[c] = "done"

\* call c returned a record
Record(c) == pc[c] = "done" /\ result[c].kind = "AnimeMeta"

\* s is a string
IsString(s) == s # None /\ DOMAIN s = 1..Len(s)

\* none of the four strategy patterns matches the preprocessed filename
NoStrategyMatches(fn) ==
  /\ ~Search(re_strategy_dash, fn).ok
  /\ ~Search(re_strategy_se, fn).ok
  /\ ~Search(re_strategy_brackets, fn).ok
  /\ ~Search(re_strategy_simple, fn).ok

\* the match of the first strategy, in the order dash, SxxExx, brackets,
\* simple, whose pattern matches fn
FirstMatch(fn) ==
  LET dash == Attempt(re_strategy_dash, "dash", fn)
      se == Attempt(re_strategy_se, "se", fn)
      brackets == Attempt(re_strategy_brackets, "brackets", fn)
  IN IF dash.ok THEN dash
     ELSE IF se.ok THEN se
     ELSE IF brackets.ok THEN brackets
     ELSE Attempt(re_strategy_simple, "simple", fn)

\* C1: every record returned by parse has season >= 1.
C1_SeasonAtLeastOne ==
  \A c \in Calls : Record(c) => result[c].season >= 1

\* C2: when no strategy pattern matches the (preprocessed) input, parse
\* returns None, and parse never raises and never returns anything but None
\* or a record with title, season, episode and raw_filename all set.
C2_NoneOrCompleteRecord ==
  \A c \in Calls :
    Returned(c) =>
      /\ result[c].kind \in {"None", "AnimeMeta"}
      /\ NoStrategyMatches(Preprocess(arg[c])) => result[c] = NoneResult
      /\ result[c].kind = "None" => result[c] = NoneResult
      /\ result[c].kind = "AnimeMeta" =>
           /\ DOMAIN result[c] = {"kind", "title", "season", "episode", "raw_filename"}
           /\ IsString(result[c].title)
           /\ result[c].season \in Int
           /\ result[c].episode \in Int
           /\ IsString(result[c].raw_filename)

\* a call returned None for a non-empty input that no pattern matches
C2_Witness ==
  \E c \in Calls :
    /\ Returned(c) /\ Len(arg[c]) > 0
    /\ NoStrategyMatches(Preprocess(arg[c]))
    /\ result[c] = NoneResult

\* C3: the strategies are tried in the order dash, SxxExx, brackets, simple,
\* and the record is built from the captures of the first one that matches
\* the preprocessed filename only.
C3_FirstStrategyWins ==
  \A c \in Calls :
    Returned(c) =>
      LET first == FirstMatch(Preprocess(arg[c]))
          rt == Strip(first.caps["title"])
      IN /\ first.ok <=> result[c].kind = "AnimeMeta"
         /\ first.ok =>
              /\ match[c] = first
              /\ result[c].title = Strip(PickPart(StripYear(StripSeason(StripGroup(rt)))))
              /\ result[c].season = SeasonFromText(SeasonFromCaptures(first.caps), rt)
              /\ result[c].episode = EpisodeOf(first.caps)

\* a record built by the dash strategy for a filename that the SxxExx
\* strategy matches too, with another title
C3_Witness ==
  \E c \in Calls :
    /\ Record(c) /\ match[c].by = "dash"
    /\ Search(re_strategy_se, Preprocess(arg[c])).ok
    /\ Search(re_strategy_se, Preprocess(arg[c])).caps["title"] # match[c].caps["title"]

\* the filenames `<Title> Season 3 - 05` and `<Title> Season 3 (2025) - 1089`
\* behind prefix p, for a title of plain words
SeasonInTitle   == <<" ","S","e","a","s","o","n"," ","3">>
EpisodeOnly     == <<" ","-"," ","0","5">>
YearAndEpisode  == <<" ","(","2","0","2","5",")"," ","-"," ","1","0","8","9">>

IsPlainTitle(s) ==
  /\ Len(s) > 0
  /\ \A i \in DOMAIN s : s[i] \in {"a", "b", " "}
  /\ s[1] # " " /\ s[Len(s)] # " "

EndsWith(s, e) == Len(s) >= Len(e) /\ SubSeq(s, Len(s) - Len(e) + 1, Len(s)) = e
StartsWith(s, p) == Len(s) >= Len(p) /\ SubSeq(s, 1, Len(p)) = p

\* f is p, a plain title, ` Season 3` and the tail e
IsSeasonForm(f, p, e) ==
  /\ StartsWith(f, p) /\ EndsWith(f, SeasonInTitle \o e)
  /\ Len(f) > Len(p) + Len(SeasonInTitle \o e)
  /\ IsPlainTitle(SubSeq(f, Len(p) + 1, Len(f) - Len(SeasonInTitle \o e)))

TitleOfSeasonForm(f, p, e) == SubSeq(f, Len(p) + 1, Len(f) - Len(SeasonInTitle \o e))

GroupPrefixes == Prefixes \ {<<>>}

\* call c returned title t, season 3 and episode e
Gives(c, t, e) ==
  /\ result[c].kind = "AnimeMeta"
  /\ result[c].title = t
  /\ result[c].season = 3
  /\ result[c].episode = e

\* C4, as claimed: a filename with no group prefix of the form
\* `<Title> Season <N> - <E>` or `<Title> Season <N> (<YYYY>) - <E>` is parsed
\* to title <Title>, season N and episode E.
C4_NoGroupSeasonInTitle ==
  \A c \in Calls :
    Returned(c) =>
      /\ IsSeasonForm(arg[c], <<>>, EpisodeOnly) =>
           Gives(c, TitleOfSeasonForm(arg[c], <<>>, EpisodeOnly), 5)
      /\ IsSeasonForm(arg[c], <<>>, YearAndEpisode) =>
           Gives(c, TitleOfSeasonForm(arg[c], <<>>, YearAndEpisode), 1089)

\* C4, amended: behind a bracketed group prefix these filenames are parsed
\* to title <Title>, season N and episode E; with no group prefix parse
\* returns None.
C4_GroupSeasonInTitle ==
  \A c \in Calls :
    Returned(c) =>
      /\ \A p \in GroupPrefixes :
           /\ IsSeasonForm(arg[c], p, EpisodeOnly) =>
                Gives(c, TitleOfSeasonForm(arg[c], p, EpisodeOnly), 5)
           /\ IsSeasonForm(arg[c], p, YearAndEpisode) =>
                Gives(c, TitleOfSeasonForm(arg[c], p, YearAndEpisode), 1089)
      /\ (IsSeasonForm(arg[c], <<>>, EpisodeOnly) \/ IsSeasonForm(arg[c], <<>>, YearAndEpisode))
           => result[c] = NoneResult

\* `[g] a Season 3 (2025) - 1089` was parsed to title a, season 3, episode 1089
C4_Witness ==
  \E c \in Calls :
    /\ Returned(c)
    /\ IsSeasonForm(arg[c], <<"[","g","]"," ">>, YearAndEpisode)
    /\ Gives(c, <<"a">>, 1089)

\* C5: the title of every record returned by parse is non-empty.
C5_TitleNonEmpty ==
  \A c \in Calls : Record(c) => Len(result[c].title) > 0

\* C6: the raw_filename of every record is the string the caller passed.
C6_RawFilenameIsInput ==
  \A c \in Calls : Record(c) => result[c].raw_filename = arg[c]

\* C7: parse leaves the instance as __init__ made it, every call returns
\* what a call that runs alone returns for its input, however the calls on
\* the shared instance interleave, and two calls on the same input return
\* equal values.
C7_PureAndReentrant ==
  /\ parser = NewParser
  /\ \A c \in Calls : Returned(c) => result[c] = Parse(arg[c])
  /\ \A c, d \in Calls :
       Returned(c) /\ Returned(d) /\ arg[c] = arg[d] => result[c] = result[d]

\* a call returned its record while another call, on another input, was
\* between two lines of parse
C7_Witness ==
  \E c, d \in Calls :
    /\ Record(c) /\ result[c] = Parse(arg[c])
    /\ arg[d] # arg[c]
    /\ pc[d] \notin {"L60", "done"}

\* t begins with a bracketed segment [...]
StartsWithBracketSegment(t) ==
  /\ Len(t) >= 2 /\ t[1] = "["
  /\ \E j \in 2..Len(t) : t[j] = "]"

\* C8: the title of every record never begins with a bracketed segment.
C8_NoLeadingBracketSegment ==
  \A c \in Calls : Record(c) => ~StartsWithBracketSegment(result[c].title)

\* the season/part phrases: 2nd/3rd/4th/final/first Season, Season N, Part N, SN
re_season_phrase ==
  Alt(<<Cat(<<Alt(<<Cat(<<Set({"2"}), Word(<<"n","d">>)>>),
                    Cat(<<Set({"3"}), Word(<<"r","d">>)>>),
                    Cat(<<Set({"4"}), Word(<<"t","h">>)>>),
                    Word(<<"f","i","n","a","l">>),
                    Word(<<"f","i","r","s","t">>)>>),
              Ws, Word(<<"s","e","a","s","o","n">>)>>),
        Cat(<<Alt(<<Word(<<"s","e","a","s","o","n">>), Word(<<"p","a","r","t">>)>>),
              Ws, Plus(Set(Digit))>>),
        Cat(<<Wb, Set(CI("S")), Plus(Set(Digit)), Wb>>)>>)

\* C9: the title of every record contains no season/part phrase at any
\* position.
C9_NoSeasonPhrase ==
  \A c \in Calls : Record(c) => ~Search(re_season_phrase, result[c].title).ok

\* t ends with a four-digit year in parentheses
EndsWithYear(t) ==
  /\ Len(t) >= 6
  /\ t[Len(t) - 5] = "(" /\ t[Len(t)] = ")"
  /\ \A i \in (Len(t) - 4)..(Len(t) - 1) : t[i] \in Digit

\* C10: the title of every record never ends with a year (YYYY), with or
\* without whitespace before it.
C10_NoTrailingYear ==
  \A c \in Calls : Record(c) => ~EndsWithYear(result[c].title)

\* the title text after the removal of the group, the season phrase and
\* the year
CleanedText(rt) == StripYear(StripSeason(StripGroup(rt)))

\* every character of seg other than spaces is ASCII
AsciiButSpaces(seg) == \A i \in DOMAIN seg : seg[i] = " " \/ seg[i] \notin NonAscii

\* C11: when the title text, after group, season-phrase and year removal,
\* contains an underscore, the title is the trimmed last underscore-separated
\* segment if every character of it other than spaces is ASCII, and the
\* trimmed first segment otherwise; with no underscore the text is only
\* trimmed.
C11_BilingualTitle ==
  \A c \in Calls :
    Record(c) =>
      LET t == CleanedText(raw_title[c])
          last == Strip(LastPart(t))
      IN IF HasUnderscore(t)
         THEN result[c].title = IF AsciiButSpaces(last) THEN last ELSE Strip(FirstPart(t))
         ELSE result[c].title = Strip(t)

\* a record whose title text is `<ideograph>_<ASCII>` or `<ASCII>_<ideograph>`
\* was given the ASCII segment as its title
C11_Witness ==
  \E c \in Calls :
    /\ Record(c)
    /\ raw_title[c] \in {<<"CJK","_","a">>, <<"a","_","CJK">>}
    /\ result[c].title = <<"a">>

\* the digits of a decimal numeral before its point
WholePart(s) ==
  IF \E i \in DOMAIN s : s[i] = "."
  THEN SubSeq(s, 1, (CHOOSE i \in DOMAIN s : s[i] = "." /\ \A j \in 1..(i - 1) : s[j] # ".") - 1)
  ELSE s

\* a version tag vN stands at i, directly after a digit and before a blank,
\* a bracket, a dot or the end of f
TagAt(f, i) ==
  /\ i > 1 /\ i + 1 <= Len(f)
  /\ f[i - 1] \in Digit /\ f[i] \in {"v", "V"} /\ f[i + 1] \in Digit
  /\ i + 1 = Len(f) \/ f[i + 2] \in {" ", "[", "(", ".", "]"}

HasVersionTag(f) == \E i \in DOMAIN f : TagAt(f, i)

\* f without its first version tag
Untag(f) ==
  LET i == CHOOSE k \in DOMAIN f : TagAt(f, k) /\ \A j \in 1..(k - 1) : ~TagAt(f, j)
  IN SubSeq(f, 1, i - 1) \o SubSeq(f, i + 2, Len(f))

\* title, season and episode of a value returned by parse
Identity(r) ==
  IF r.kind = "AnimeMeta" THEN <<r.title, r.season, r.episode>> ELSE <<r.kind>>

\* C12: the episode of every record is its episode capture read as a decimal
\* and truncated toward zero, an integer >= 0, and a matched filename with a
\* version tag vN after its episode number gives the title, season and
\* episode of the same filename without the tag.
C12_EpisodeTruncatedTagIgnored ==
  \A c \in Calls :
    Record(c) =>
      /\ match[c].caps["episode"] # None
      /\ result[c].episode = IntOf(WholePart(match[c].caps["episode"]))
      /\ result[c].episode \in Nat
      /\ HasVersionTag(arg[c]) => Identity(result[c]) = Identity(Parse(Untag(arg[c])))

\* `[g] a - 12.5v2` was parsed to episode 12, as `[g] a - 12.5` is
C12_Witness ==
  \E c \in Calls :
    /\ Record(c)
    /\ HasVersionTag(arg[c])
    /\ match[c].caps["episode"] = <<"1","2",".","5">>
    /\ result[c].episode = 12
    /\ Identity(Parse(Untag(arg[c]))) = Identity(result[c])

\* the word w, in any case, stands at i in t
WordAt(t, i, w) ==
  /\ i >= 1 /\ i + Len(w) - 1 <= Len(t)
  /\ ToLower(SubSeq(t, i, i + Len(w) - 1)) = w

\* from i on t has blanks, if any, and then a character of S
AfterBlanks(t, i, S) ==
  \E j \in i..Len(t) : t[j] \in S /\ \A k \in i..(j - 1) : t[k] \in White

\* t contains one of the season phrases Season N, Part N, SN, Nth Season,
\* at any position and in any case
MentionsSeason(t) ==
  \E i \in DOMAIN t :
    \/ WordAt(t, i, <<"s","e","a","s","o","n">>) /\ AfterBlanks(t, i + 6, Digit)
    \/ WordAt(t, i, <<"p","a","r","t">>) /\ AfterBlanks(t, i + 4, Digit)
    \/ t[i] \in {"s", "S"} /\ i < Len(t) /\ t[i + 1] \in Digit
    \/ /\ t[i] \in Digit
       /\ \E o \in {<<"s","t">>, <<"n","d">>, <<"r","d">>, <<"t","h">>} : WordAt(t, i + 1, o)
       /\ \E j \in (i + 3)..Len(t) :
            /\ WordAt(t, j, <<"s","e","a","s","o","n">>)
            /\ \A k \in (i + 3)..(j - 1) : t[k] \in White

\* the captures of call c hold no season number and no season marker with a
\* digit in it
NoSeasonCaptured(c) ==
  /\ match[c].caps["season"] = None
  /\ \/ match[c].caps["season_raw"] = None
     \/ \A i \in DOMAIN match[c].caps["season_raw"] : match[c].caps["season_raw"][i] \notin Digit

\* C13: when the winning strategy captured no season number and no bracket
\* season marker with a digit, and the raw title contains none of the season
\* phrases, the season of the record is 1.
C13_SeasonDefaultsToOne ==
  \A c \in Calls :
    (Record(c) /\ NoSeasonCaptured(c) /\ ~MentionsSeason(raw_title[c]))
      => result[c].season = 1

\* a record with season 1 for a filename that has no season signal, and one
\* for a bracket marker without a digit
C13_Witness ==
  \E c \in Calls :
    /\ Record(c) /\ NoSeasonCaptured(c) /\ ~MentionsSeason(raw_title[c])
    /\ match[c].caps["season_raw"] # None
    /\ result[c].season = 1

\* the first run of digits of s, which has one
FirstDigits(s) ==
  LET i == CHOOSE k \in DOMAIN s : s[k] \in Digit /\ \A j \in 1..(k - 1) : s[j] \notin Digit
      j == CHOOSE k \in i..Len(s) :
             /\ \A n \in i..k : s[n] \in Digit
             /\ k = Len(s) \/ s[k + 1] \notin Digit
  IN SubSeq(s, i, j)

\* the strategy of call c yields a season number: captured directly, or as
\* the first digits of the bracket season marker
YieldsSeason(c) == ~NoSeasonCaptured(c)

YieldedSeason(c) ==
  IF match[c].caps["season"] # None
  THEN IntOf(match[c].caps["season"])
  ELSE IntOf(FirstDigits(match[c].caps["season_raw"]))

\* the bracket season markers that name season 2
MarkersOfTwo ==
  { <<"S","2">>,
    <<"S","e","a","s","o","n"," ","2">>,
    <<"p","a","r","t"," ","2">>,
    <<"2","n","d"," ","S","e","a","s","o","n">> }

\* C14: when the winning strategy yields a season number n other than 1,
\* captured directly or as the first run of digits of the bracket season
\* marker (S2, Season 2, part 2, 2nd Season all give 2), the season of the
\* record is n whatever the title text says; `[g][b][S2][05]` gives title b,
\* season 2, episode 5.
C14_CapturedSeasonWins ==
  \A c \in Calls :
    Record(c) =>
      /\ (YieldsSeason(c) /\ YieldedSeason(c) # 1) => result[c].season = YieldedSeason(c)
      /\ match[c].caps["season_raw"] \in MarkersOfTwo => result[c].season = 2
      /\ arg[c] = <<"[","g","]","[","b","]","[","S","2","]","[","0","5","]">>
           => Identity(result[c]) = <<(<<"b">>), 2, 5>>

\* `[g][a Season 3][S2][05]` was parsed to season 2, not 3
C14_Witness ==
  \E c \in Calls :
    /\ Record(c) /\ match[c].by = "brackets"
    /\ match[c].caps["season_raw"] = <<"S","2">>
    /\ MentionsSeason(raw_title[c])
    /\ result[c].season = 2

\* the strategy of call c captured season 1 itself
CapturedOne(c) == YieldsSeason(c) /\ YieldedSeason(c) = 1

re_bracket_segment == Cat(<<Set({"["}), Star(NotSet({"]"})), Set({"]"})>>)

\* t with its bracketed segments removed
DropBrackets(t) == Del(re_bracket_segment, t)

\* C16: the season is mined from the raw title with its bracketed segments
\* removed: a season-like token that stands only inside a bracketed segment
\* of the raw title never determines the season of the record.
C16_BracketedTokenNotMined ==
  \A c \in Calls :
    (Record(c) /\ (NoSeasonCaptured(c) \/ CapturedOne(c)))
      => LET m == ExtractSeasonFromText(DropBrackets(raw_title[c]))
         IN result[c].season = IF m # NoInt /\ m # 0 THEN m ELSE 1

\* f with every full-width bracket replaced by its ASCII bracket
AsciiBrackets(f) ==
  [i \in DOMAIN f |-> IF f[i] = "FWL" THEN "[" ELSE IF f[i] = "FWR" THEN "]" ELSE f[i]]

HasFullWidth(f) == \E i \in DOMAIN f : f[i] \in {"FWL", "FWR"}

\* C18: the brackets are normalized before any strategy is attempted, by
\* plain substitution: parse(f) and parse(f'), f' being f with every
\* full-width bracket replaced by its ASCII bracket, are both None or records
\* with the same title, season and episode, and normalizing a normalized
\* string changes nothing.
C18_NormalizedFirst ==
  \A c \in Calls :
    /\ pc[c] # "L60" => filename[c] = AsciiBrackets(arg[c])
    /\ pc[c] = "L60" => ~match[c].ok
    /\ pc[c] = "L64" => Preprocess(filename[c]) = filename[c]
    /\ (Returned(c) /\ HasFullWidth(arg[c]))
         => Identity(result[c]) = Identity(Parse(AsciiBrackets(arg[c])))

\* a filename with full-width brackets was parsed to the record of its ASCII
\* form, by the bracket strategy
C18_Witness ==
  \E c \in Calls :
    /\ Record(c) /\ HasFullWidth(arg[c])
    /\ match[c].by = "brackets"
    /\ Identity(result[c]) = Identity(Parse(AsciiBrackets(arg[c])))

\* the file whose VideoFile the monitor is processing
ScannedFile == files[scan_i - 1]

\* the monitor is inside _process_single_video
Processing == mon_pc \in {"L73", "L74", "L77"}

\* name ends with .mp4 or .mkv followed by an allowed extension
HasDoubleExtension(name) ==
  \E e \in {<<".","m","p","4">>, <<".","m","k","v">>}, s \in allowed_extensions : EndsWith(ToLower(name), e \o s)

\* C17, as claimed: no record that parse returns for a scanned file is built
\* from the simple strategy.
C17_SimpleNeverMatches ==
  (Processing /\ Record(1)) => match[1].by # "simple"

\* C17, amended: a record that parse returns for a scanned file is built
\* from the simple strategy only when the name of the file carries a video
\* extension before its final extension.
C17_SimpleOnlyForDoubleExtension ==
  (Processing /\ Record(1) /\ match[1].by = "simple")
    => /\ HasDoubleExtension(ScannedFile.name)
       /\ arg[1] \o Suffix(ScannedFile.name) = ScannedFile.name

\* the scanned file `a 07.mkv.mp4` was parsed by the simple strategy
C17_Witness ==
  /\ Processing /\ Record(1)
  /\ match[1].by = "simple"
  /\ ScannedFile.name = <<"a"," ","0","7",".","m","k","v",".","m","p","4">>
  /\ result[1].episode = 7

\* the scanner yields a VideoFile for file f
Scanned(f) == ToLower(Suffix(f.name)) \in allowed_extensions /\ f.big /\ ~f.locked

\* C19: after run_once has completed, every scanned file for which parse
\* reported no match has an entry in unidentified_files.
C19_UnparsedAreUnidentified ==
  mon_pc = "done" =>
    \A i \in DOMAIN files :
      (Scanned(files[i]) /\ Parse(Stem(files[i].name)) = NoneResult)
        => \E j \in DOMAIN unidentified_files :
             unidentified_files[j].filename = Stem(files[i].name)

\* thread t runs _loop_logic
Alive(t) == loop_pc[t] \in {"L210", "L211", "L214"}

\* C20: at most one background scan-loop thread is alive at any time.
C20_OneLoopThread ==
  Cardinality({t \in DOMAIN loop_pc : Alive(t)}) <= 1

\* the loop threads and the background tasks that are inside run_once
LoopScans == {t \in DOMAIN loop_pc : loop_pc[t] = "L211"}

TaskScans == {r \in DOMAIN req_pc : req_pc[r] = "run_once"}

\* C21: run_once is never executed by two threads at the same time.
C21_OneScanAtATime ==
  Cardinality(LoopScans) + Cardinality(TaskScans) <= 1

\* no two entries of the list have the same filename
OnePerFilename ==
  \A i, j \in DOMAIN unidentified_files :
    unidentified_files[i].filename = unidentified_files[j].filename => i = j

\* after a completed run_once every entry was reported by that scan
OnlyThisScan ==
  mon_pc = "done" =>
    \A i \in DOMAIN unidentified_files : unidentified_files[i].filename \in reported

\* C22: unidentified_files holds at most one entry per filename in every
\* reachable state, and after a completed run_once only files reported by
\* that scan.
C22_OnePerFilenameOnlyThisScan == OnePerFilename /\ OnlyThisScan

\* C23: the filename of an entry a scan puts in unidentified_files (the
\* name a client sends back to manual_identify) is the key under which
\* the scan looked up, and the next scan looks up, the mapping of that
\* source file.
C23_EntryFilenameIsLookupKey ==
  calls.unidentified # <<>> => calls.unidentified[1] = calls.key

\* the mapped value when the mapping holds one, else the parsed one
Preferred(mapped, parsed) == IF mapped # NoInt THEN mapped ELSE parsed

\* the season and the episode _process_single_video is to hand on
TargetOf(c) ==
  << Preferred(c.map_data.season, c.parsed[1]),
     Preferred(c.map_data.episode, c.parsed[2]) >>

\* C24: the linker, the episode lookup and the saved episode metadata
\* receive the mapped season and episode when the mapping of the file holds
\* them and the parsed ones when it does not; when the mapping holds an id,
\* that id is the show id and no title search is made.
C24_ManualOverridesWin ==
  calls.parsed # <<>> =>
    /\ calls.linker # <<>> => calls.linker = TargetOf(calls)
    /\ calls.lookup # <<>> => SubSeq(calls.lookup, 2, 3) = TargetOf(calls)
    /\ calls.save # <<>> => calls.save = TargetOf(calls)
    /\ calls.map_data.id # NoInt =>
         /\ ~calls.searched
         /\ calls.tv_id = calls.map_data.id
         /\ calls.lookup # <<>> => calls.lookup[1] = calls.map_data.id

====
